---- MODULE Spec2Model ----
(***************************************************************************)
(* Travel-service CRUD (src/app.py): one PostgreSQL table travel_services, *)
(* four parameterised statements, a payload builder, and four Streamlit    *)
(* tabs (create, list with filters, update, bulk delete).                  *)
(*                                                                         *)
(* Representation.                                                         *)
(*   text value     a sequence of one-character strings                    *)
(*   nullable value <<>> for None/NULL, <<x>> for the value x              *)
(*   date           the integer yyyymmdd (ordered as the calendar is)      *)
(*   Python float   [neg, kilo, milli, err]: the decimal literal that was  *)
(*                  typed, magnitude kilo*1000 + milli/1000, and err, the  *)
(*                  sign of (binary double - decimal literal)              *)
(*   2-decimal float as round(x, 2) returns it: [neg, kilo, cents],        *)
(*                  magnitude kilo*1000 + cents/100                        *)
(*   NUMERIC(12,2)  [kilo, cents], the value kilo*100000 + cents in cents, *)
(*                  0 <= cents < 100000 (floor form, so sums carry once)   *)
(* created_at (line 108) is set by the server clock and is never written   *)
(* or compared by the application; it is left out of the rows.             *)
(***************************************************************************)
EXTENDS Integers, Sequences, FiniteSets, TLC

VARIABLES table, nextId, form, event, view, args, payload

vars == <<table, nextId, form, event, view, args, payload>>

---------------------------------------------------------------------------
(* Bounds of the model *)

\* identifiers the sequence may hand out in Spec
MaxId == 2
\* identifiers the sequence may hand out in SpecDelete
MaxDeleteId == 3
\* identifiers of the tables the list view is run on in SpecList
MaxListId == 2

Sessions == {"s1", "s2"}

---------------------------------------------------------------------------
(* Fixed vocabularies, lines 14-73 *)

SERVICE_TYPES == <<"TRANSPORTE", "HOSPEDAGEM", "PASSAGEM AEREA", "SEGURO">>

AIRLINES == <<"AIR FRANCE", "AMERICAN AIRLINES", "AZUL", "DELTA", "GOL",
              "LATAM AIRLINES", "UNITED AIRLINES">>

COST_CENTERS == <<"N/A", "ADM-RATEIO", "FINANCEIRO", "G. GERAL", "VENDAS",
                  "RH", "OPS-RATEIO">>

STATUSES == <<"CANCELADA", "ATENDIDA", "EM ABERTO">>

SUPPLIERS == <<"LOCARIO", "RICKER", "MAX MOBILIDADE", "RIOMAR",
               "HOTEL ROYAL REGENCY", "IBIS BOTAFOGO", "COPASTUR",
               "ROYAL ATLANTICA MACAE", "FOUR POINTS", "MONREALE">>

MONTH_CHOICES ==
    << <<1, "01 - Janeiro">>, <<2, "02 - Fevereiro">>, <<3, "03 - Marco">>,
       <<4, "04 - Abril">>, <<5, "05 - Maio">>, <<6, "06 - Junho">>,
       <<7, "07 - Julho">>, <<8, "08 - Agosto">>, <<9, "09 - Setembro">>,
       <<10, "10 - Outubro">>, <<11, "11 - Novembro">>, <<12, "12 - Dezembro">> >>

Range(s) == {s[i] : i \in DOMAIN s}

---------------------------------------------------------------------------
(* Python values *)

None == <<>>
Some(x) == <<x>>

\* str.strip(): leading and trailing whitespace removed
Whitespace == {" ", "\t", "\n"}

RECURSIVE LStrip(_)
LStrip(s) == IF s # <<>> /\ Head(s) \in Whitespace THEN LStrip(Tail(s)) ELSE s

RECURSIVE RStrip(_)
RStrip(s) ==
    IF s # <<>> /\ s[Len(s)] \in Whitespace
    THEN RStrip(SubSeq(s, 1, Len(s) - 1))
    ELSE s

Strip(s) == RStrip(LStrip(s))

\* `text.strip() or None`
StripOrNone(s) == IF Strip(s) = <<>> THEN None ELSE Some(Strip(s))

\* `choice or None` for a selectbox value (a string)
ChoiceOrNone(c) == IF c = "" THEN None ELSE Some(c)

\* a float that is 0.0 (or -0.0) is falsy
FloatIsZero(x) == x.kilo = 0 /\ x.milli = 0

ZeroCents == [neg |-> FALSE, kilo |-> 0, cents |-> 0]

\* variant: round half up on the typed decimal
PyRound2_HalfUp(x) ==
    LET q == x.milli \div 10
        c == IF x.milli % 10 >= 5 THEN q + 1 ELSE q
    IN  [neg |-> x.neg,
         kilo |-> IF c = 100000 THEN x.kilo + 1 ELSE x.kilo,
         cents |-> IF c = 100000 THEN 0 ELSE c]

\* round(x, 2) on a float: the nearest 2-decimal value of the binary double,
\* an exact tie going to the even neighbour
PyRound2(x) ==
    LET q == x.milli \div 10
        r == x.milli % 10
        up == \/ r > 5
              \/ r = 5 /\ x.err > 0
              \/ r = 5 /\ x.err = 0 /\ q % 2 = 1
        c == IF up THEN q + 1 ELSE q
    IN  [neg |-> x.neg,
         kilo |-> IF c = 100000 THEN x.kilo + 1 ELSE x.kilo,
         cents |-> IF c = 100000 THEN 0 ELSE c]

\* variant: a negative amount defaults to zero as a missing one does
RoundMoney_Clamp(v) ==
    IF v = None \/ FloatIsZero(v[1]) \/ v[1].neg THEN ZeroCents ELSE PyRound2(v[1])

\* `round(value or 0, 2)`, value a float or None
RoundMoney(v) ==
    IF v = None \/ FloatIsZero(v[1]) THEN ZeroCents ELSE PyRound2(v[1])

---------------------------------------------------------------------------
(* Form widgets *)

\* month_selectbox, lines 191-196: the number of the chosen label
MonthSelectbox(selection) ==
    LET i == CHOOSE k \in DOMAIN MONTH_CHOICES : MONTH_CHOICES[k][2] = selection
    IN  MONTH_CHOICES[i][1]

\* pt_month_label, lines 186-188: dict(MONTH_CHOICES).get(month_number, "")
pt_month_label(month_number) ==
    IF \E k \in DOMAIN MONTH_CHOICES : MONTH_CHOICES[k][1] = month_number
    THEN MONTH_CHOICES[CHOOSE k \in DOMAIN MONTH_CHOICES :
                           MONTH_CHOICES[k][1] = month_number][2]
    ELSE ""

\* st.number_input(..., min_value=0.0): the values the widget can deliver
NumberInputDelivers(x) == ~x.neg

---------------------------------------------------------------------------
(* build_payload, lines 204-243.  a holds the eighteen arguments. *)

build_payload(a) ==
    [service_type   |-> a.service_type,
     control        |-> Strip(a.control),
     issue_date     |-> a.issue_date,
     issuer         |-> Strip(a.issuer),
     airline        |-> ChoiceOrNone(a.airline),
     departure_date |-> a.departure_date,
     month_number   |-> a.month_number,
     origin         |-> StripOrNone(a.origin),
     destination    |-> StripOrNone(a.destination),
     user_name      |-> StripOrNone(a.user_name),
     reason         |-> StripOrNone(a.reason),
     cost_center    |-> ChoiceOrNone(a.cost_center),
     service_cost   |-> RoundMoney(a.service_cost),
     fee            |-> RoundMoney(a.fee),
     status         |-> ChoiceOrNone(a.status),
     supplier       |-> ChoiceOrNone(a.supplier),
     nf_issue_date  |-> a.nf_issue_date,
     nf_number      |-> StripOrNone(a.nf_number)]

---------------------------------------------------------------------------
(* The table travel_services, lines 85-112 *)

ControlWidth == 64
IssuerWidth == 64
OriginWidth == 64
DestinationWidth == 64
UserNameWidth == 64
NfNumberWidth == 64
NumericPrecision == 12
NumericScale == 2

\* NUMERIC(12,2) holds |value| < 10^(12-2); in thousands of units
KiloLimit == 10 ^ (NumericPrecision - NumericScale - 3)

\* a 2-decimal float written to a NUMERIC(12,2) column (exact: it has 2 decimals)
ToNumeric(c) ==
    IF ~c.neg \/ (c.kilo = 0 /\ c.cents = 0)
    THEN [kilo |-> c.kilo, cents |-> c.cents]
    ELSE IF c.cents = 0
         THEN [kilo |-> 0 - c.kilo, cents |-> 0]
         ELSE [kilo |-> 0 - c.kilo - 1, cents |-> 100000 - c.cents]

NumZero == [kilo |-> 0, cents |-> 0]

NumAdd(x, y) ==
    [kilo  |-> x.kilo + y.kilo + ((x.cents + y.cents) \div 100000),
     cents |-> (x.cents + y.cents) % 100000]

NumGeq0(x) == x.kilo >= 0

\* COALESCE(column, 0)
Coalesce0(o) == IF o = None THEN NumZero ELSE o[1]

\* variant: the fee is left out of the total
GeneratedTotal_CostOnly(service_cost, fee) == Coalesce0(service_cost)

\* line 103: GENERATED ALWAYS AS (COALESCE(service_cost,0)+COALESCE(fee,0)) STORED
GeneratedTotal(service_cost, fee) == NumAdd(Coalesce0(service_cost), Coalesce0(fee))

NumericOverflow(x) ==
    \/ x.kilo >= KiloLimit
    \/ x.kilo < 0 - KiloLimit
    \/ x.kilo = 0 - KiloLimit /\ x.cents = 0

\* VARCHAR(n): a longer value is an error.  (The server truncates only an excess
\* of spaces, which a stripped value never has.)
TooLong(o, n) == o # None /\ Len(o[1]) > n

\* the payload's own values violate a column's type
ColumnRejects(p) ==
    \/ TooLong(Some(p.control), ControlWidth)
    \/ TooLong(Some(p.issuer), IssuerWidth)
    \/ TooLong(p.origin, OriginWidth)
    \/ TooLong(p.destination, DestinationWidth)
    \/ TooLong(p.user_name, UserNameWidth)
    \/ TooLong(p.nf_number, NfNumberWidth)
    \/ NumericOverflow(ToNumeric(p.service_cost))
    \/ NumericOverflow(ToNumeric(p.fee))

\* the generated total of the row the payload would make does not fit
TotalRejects(p) ==
    NumericOverflow(GeneratedTotal(Some(ToNumeric(p.service_cost)),
                                   Some(ToNumeric(p.fee))))

\* the row a payload makes under identifier id
RowOf(id, p) ==
    [id             |-> id,
     service_type   |-> p.service_type,
     control        |-> p.control,
     issue_date     |-> p.issue_date,
     issuer         |-> p.issuer,
     airline        |-> p.airline,
     departure_date |-> p.departure_date,
     month_number   |-> p.month_number,
     origin         |-> p.origin,
     destination    |-> p.destination,
     user_name      |-> p.user_name,
     reason         |-> p.reason,
     cost_center    |-> p.cost_center,
     service_cost   |-> Some(ToNumeric(p.service_cost)),
     fee            |-> Some(ToNumeric(p.fee)),
     total_cost     |-> GeneratedTotal(Some(ToNumeric(p.service_cost)),
                                       Some(ToNumeric(p.fee))),
     status         |-> p.status,
     supplier       |-> p.supplier,
     nf_issue_date  |-> p.nf_issue_date,
     nf_number      |-> p.nf_number]

EmptyTable == [i \in {} |-> 0]

---------------------------------------------------------------------------
(* The four statements, lines 115-183.  Each runs in its own transaction:   *)
(* a rejected statement leaves the table as it was.                         *)

\* ORDER BY issue_date DESC, id DESC
Newer(a, b) ==
    \/ a.issue_date > b.issue_date
    \/ a.issue_date = b.issue_date /\ a.id > b.id

RECURSIVE OrderRows(_)
OrderRows(rows) ==
    IF rows = {} THEN <<>>
    ELSE LET first == CHOOSE r \in rows : \A o \in rows \ {r} : Newer(r, o)
         IN  <<first>> \o OrderRows(rows \ {first})

fetch_dataframe(tbl) == OrderRows({tbl[i] : i \in DOMAIN tbl})

InsertRejects(p) == ColumnRejects(p) \/ TotalRejects(p)

insert_record(tbl, id, p) ==
    IF InsertRejects(p) THEN tbl
    ELSE [i \in DOMAIN tbl \cup {id} |-> IF i = id THEN RowOf(id, p) ELSE tbl[i]]

\* variant: a missing identifier is inserted
update_record_Upsert(tbl, record_id, p) ==
    IF ColumnRejects(p) \/ TotalRejects(p) THEN tbl
    ELSE [i \in DOMAIN tbl \cup {record_id} |->
            IF i = record_id THEN RowOf(i, p) ELSE tbl[i]]

\* variant: SET service_cost = service_cost + :service_cost
update_record_Accumulate(tbl, record_id, p) ==
    IF ColumnRejects(p) \/ (record_id \in DOMAIN tbl /\ TotalRejects(p)) THEN tbl
    ELSE [i \in DOMAIN tbl |->
            IF i = record_id
            THEN [RowOf(i, p) EXCEPT
                    !.service_cost = Some(NumAdd(Coalesce0(tbl[i].service_cost),
                                                 ToNumeric(p.service_cost)))]
            ELSE tbl[i]]

\* variant: nothing is deleted unless every identifier is stored
delete_records_AllOrNothing(tbl, ids) ==
    IF ids \subseteq DOMAIN tbl THEN [i \in DOMAIN tbl \ ids |-> tbl[i]] ELSE tbl

\* The SET list is checked against the column types when the statement is
\* planned, whether or not a row matches; the generated total is computed only
\* for a row that is rewritten.
UpdateRejects(tbl, record_id, p) ==
    ColumnRejects(p) \/ (record_id \in DOMAIN tbl /\ TotalRejects(p))

update_record(tbl, record_id, p) ==
    IF UpdateRejects(tbl, record_id, p) THEN tbl
    ELSE [i \in DOMAIN tbl |-> IF i = record_id THEN RowOf(i, p) ELSE tbl[i]]

\* DELETE ... WHERE id = ANY(:ids)
delete_records(tbl, ids) == [i \in DOMAIN tbl \ ids |-> tbl[i]]

---------------------------------------------------------------------------
(* Inputs: what a user leaves or types in a form before submitting it.      *)
(* Float(neg, kilo, milli, err) is a typed amount; err is tabulated from    *)
(* the binary double of the literal.                                        *)

Float(neg, kilo, milli, err) == [neg |-> neg, kilo |-> kilo, milli |-> milli, err |-> err]

Repeat(c, n) == [i \in 1..n |-> c]

\* control="ABC123", issue_date=2024-03-01, service_cost=100.005, fee=50.00
FillABC ==
    [service_type   |-> "PASSAGEM AEREA",
     control        |-> <<"A", "B", "C", "1", "2", "3">>,
     issue_date     |-> 20240301,
     issuer         |-> <<" ", "a", "n", "a">>,
     airline        |-> "AZUL",
     departure_date |-> Some(20240310),
     month          |-> "03 - Marco",
     origin         |-> <<"R", "I", "O", " ">>,
     destination    |-> <<>>,
     user_name      |-> <<"b", "i", "a">>,
     reason         |-> <<" ">>,
     cost_center    |-> "VENDAS",
     service_cost   |-> Float(FALSE, 0, 100005, -1),
     fee            |-> Float(FALSE, 0, 50000, 0),
     status         |-> "EM ABERTO",
     supplier       |-> "COPASTUR",
     nf_issue_date  |-> None,
     nf_number      |-> <<>>]

\* control=" X1 ", issue_date=2024-02-15, service_cost=0.125, fee=2.675
FillOther ==
    [FillABC EXCEPT !.service_type = "HOSPEDAGEM",
                    !.control = <<" ", "X", "1", " ">>,
                    !.issue_date = 20240215,
                    !.airline = "",
                    !.departure_date = None,
                    !.month = "02 - Fevereiro",
                    !.service_cost = Float(FALSE, 0, 125, 0),
                    !.fee = Float(FALSE, 0, 2675, -1),
                    !.status = "ATENDIDA",
                    !.nf_issue_date = Some(20240220),
                    !.nf_number = <<"7">>]

\* a control code of whitespace only, amounts left at 0.00
FillBlank ==
    [FillOther EXCEPT !.control = <<" ", "\t">>,
                      !.service_cost = Float(FALSE, 0, 0, 0),
                      !.fee = Float(FALSE, 0, 0, 0)]

\* a control code one character wider than its column
FillLong == [FillABC EXCEPT !.control = Repeat("a", ControlWidth + 1)]

\* service_cost=9999999999.99 and fee=0.01: each fits, their sum does not
FillHuge ==
    [FillABC EXCEPT !.service_cost = Float(FALSE, KiloLimit - 1, 999990, -1),
                    !.fee = Float(FALSE, 0, 10, 1)]

\* a control code left empty
FillEmpty == [FillBlank EXCEPT !.control = <<>>]

Fillings == {FillABC, FillOther, FillBlank, FillEmpty, FillLong, FillHuge}

\* what the sessions of SpecDelete register
DeleteFillings == {FillABC, FillOther}

\* the eighteen arguments a form hands to build_payload, lines 285-304, 455-474
FormArgs(f) ==
    [service_type   |-> f.service_type,
     control        |-> f.control,
     issue_date     |-> f.issue_date,
     issuer         |-> f.issuer,
     airline        |-> f.airline,
     departure_date |-> f.departure_date,
     month_number   |-> MonthSelectbox(f.month),
     origin         |-> f.origin,
     destination    |-> f.destination,
     user_name      |-> f.user_name,
     reason         |-> f.reason,
     cost_center    |-> f.cost_center,
     service_cost   |-> Some(f.service_cost),
     fee            |-> Some(f.fee),
     status         |-> f.status,
     supplier       |-> f.supplier,
     nf_issue_date  |-> f.nf_issue_date,
     nf_number      |-> f.nf_number]

---------------------------------------------------------------------------
(* The tabs.  A session is idle, or inside a run of the update or delete    *)
(* tab between its fetch_dataframe and its statement; other sessions'       *)
(* statements can fall in between.                                          *)

Idle == [tab |-> "idle", ids |-> {}]

\* what the last submission did: the tab, the message shown (st.success,
\* the validation st.error, or the data-access st.error), whether a statement
\* was sent, the identifiers it named and the rows the statement affected.
\* After it the run ends or st.rerun() starts a new one: the session is idle.
Event(op, outcome, call, ids, rows) ==
    [op |-> op, outcome |-> outcome, call |-> call, ids |-> ids, rows |-> rows]

\* variant: `if not control:` without the strip
ControlMissing_NoStrip(f) == f.control = <<>>

\* the control-code rule of the create form, lines 282-284
ControlMissing(f) == Strip(f.control) = <<>>

\* show_create_tab, lines 280-313
CreateSubmit(s, f, cap) ==
    /\ form[s].tab = "idle"
    /\ nextId <= cap
    /\ NumberInputDelivers(f.service_cost) /\ NumberInputDelivers(f.fee)
    /\ IF ControlMissing(f)
       THEN /\ event' = Event("create", "invalid", FALSE, {}, 0)
            /\ UNCHANGED <<table, nextId>>
       ELSE LET p == build_payload(FormArgs(f))
            IN  /\ table' = insert_record(table, nextId, p)
                /\ IF InsertRejects(p)
                   THEN /\ event' = Event("create", "error", TRUE, {}, 0)
                        \* a rejected INSERT may already have drawn from the sequence
                        /\ nextId' \in {nextId, nextId + 1}
                   ELSE /\ event' = Event("create", "ok", TRUE, {}, 1)
                        /\ nextId' = nextId + 1
    /\ UNCHANGED <<form, view, args, payload>>

\* show_update_tab, lines 370-385: the fetch and the record selected
UpdateRender(s) ==
    /\ form[s].tab = "idle"
    /\ LET data == fetch_dataframe(table)
       IN  /\ data # <<>>
           /\ \E k \in DOMAIN data :
                form' = [form EXCEPT ![s] = [tab |-> "update", ids |-> {data[k].id}]]
    /\ UNCHANGED <<table, nextId, event, view, args, payload>>

\* show_update_tab, lines 453-483
UpdateSubmit(s, f) ==
    /\ form[s].tab = "update"
    /\ NumberInputDelivers(f.service_cost) /\ NumberInputDelivers(f.fee)
    /\ LET selected_id == CHOOSE i \in form[s].ids : TRUE
           p == build_payload(FormArgs(f))
       IN  /\ table' = update_record(table, selected_id, p)
           /\ event' = IF UpdateRejects(table, selected_id, p)
                       THEN Event("update", "error", TRUE, {selected_id}, 0)
                       ELSE Event("update", "ok", TRUE, {selected_id},
                                  Cardinality({selected_id} \cap DOMAIN table))
    /\ form' = [form EXCEPT ![s] = Idle]
    /\ UNCHANGED <<nextId, view, args, payload>>

\* show_delete_tab, lines 488-502: the fetch and the records selected
DeleteRender(s) ==
    /\ form[s].tab = "idle"
    /\ LET data == fetch_dataframe(table)
           ids == {data[k].id : k \in DOMAIN data}
       IN  /\ data # <<>>
           /\ \E selection \in SUBSET ids :
                /\ selection # {}
                /\ form' = [form EXCEPT ![s] = [tab |-> "delete", ids |-> selection]]
    /\ UNCHANGED <<table, nextId, event, view, args, payload>>

\* show_delete_tab, lines 504-510
DeleteSubmit(s) ==
    /\ form[s].tab = "delete"
    /\ table' = delete_records(table, form[s].ids)
    /\ event' = Event("delete", "ok", TRUE, form[s].ids,
                      Cardinality(form[s].ids \cap DOMAIN table))
    /\ form' = [form EXCEPT ![s] = Idle]
    /\ UNCHANGED <<nextId, view, args, payload>>

---------------------------------------------------------------------------
(* The list view, show_table_tab, lines 316-365 *)

\* strftime("%d/%m/%Y") of a date: day, month, year
Strftime(d) == <<d % 100, (d \div 100) % 100, d \div 10000>>

\* Series.dt.strftime on a nullable date column
StrftimeOrNone(o) == IF o = None THEN None ELSE Some(Strftime(o[1]))

\* lines 357-364: dates formatted, month_number replaced by its label
DisplayRow(r) ==
    [k \in (DOMAIN r \ {"month_number"}) \cup {"month"} |->
        CASE k = "issue_date"     -> Strftime(r.issue_date)
          [] k = "departure_date" -> StrftimeOrNone(r.departure_date)
          [] k = "nf_issue_date"  -> StrftimeOrNone(r.nf_issue_date)
          [] k = "month"          -> pt_month_label(r.month_number)
          [] OTHER                -> r[k]]

DisplayRows(rows) == [k \in DOMAIN rows |-> DisplayRow(rows[k])]

\* variant: a record without status passes the status filter
StatusIsIn_NullPasses(r, selected_status) ==
    r.status = None \/ r.status[1] \in selected_status

\* line 340: Series.isin; a NULL status is in no set
StatusIsIn(r, selected_status) ==
    r.status # None /\ r.status[1] \in selected_status

\* lines 342-345
MonthNumbers(selected_months) ==
    {MONTH_CHOICES[k][1] : k \in {j \in DOMAIN MONTH_CHOICES :
                                      MONTH_CHOICES[j][2] \in selected_months}}

\* lines 348-351, both bounds included
InIssueRange(r, start, end) == r.issue_date >= start /\ r.issue_date <= end

View(kind, rows, selected_status, selected_months, use_issue_filter, range) ==
    [kind |-> kind, rows |-> rows, selected_status |-> selected_status,
     selected_months |-> selected_months, use_issue_filter |-> use_issue_filter,
     range |-> range]

\* what one run of the tab shows.  range is what st.date_input returns for a
\* range value: a tuple of no, one or two dates.
show_table_tab(tbl, selected_status, selected_months, use_issue_filter, range) ==
    LET data == fetch_dataframe(tbl)
        issue_range == IF use_issue_filter THEN range ELSE None
        byStatus == IF selected_status # {}
                    THEN SelectSeq(data, LAMBDA r : StatusIsIn(r, selected_status))
                    ELSE data
        byMonth == IF selected_months # {}
                   THEN SelectSeq(byStatus, LAMBDA r :
                            r.month_number \in MonthNumbers(selected_months))
                   ELSE byStatus
        filtered == IF issue_range # <<>>
                    THEN SelectSeq(byMonth, LAMBDA r :
                             InIssueRange(r, issue_range[1], issue_range[2]))
                    ELSE byMonth
        shown(kind, rows) == View(kind, rows, selected_status, selected_months,
                                  use_issue_filter, range)
    IN  IF data = <<>> THEN shown("info", <<>>)
        \* line 347: `start, end = issue_range` needs exactly two values
        ELSE IF issue_range # <<>> /\ Len(issue_range) # 2
             THEN shown("exception", <<>>)
        ELSE IF filtered = <<>> THEN shown("warning", <<>>)
        ELSE shown("dataframe", DisplayRows(filtered))

\* the filter widgets, lines 324-336
FilterDates == {20240215, 20240220, 20240301}

FilterMonths == {"03 - Marco"}

\* the tuples the range input delivers: none, the start alone, start and end
RangeInputs ==
    {<<>>} \cup {<<a>> : a \in FilterDates}
           \cup {ab \in FilterDates \X FilterDates : ab[1] <= ab[2]}

ShowTable ==
    /\ \E selected_status \in SUBSET Range(STATUSES),
          selected_months \in SUBSET FilterMonths,
          use_issue_filter \in BOOLEAN,
          range \in RangeInputs :
            /\ use_issue_filter \/ range = <<>>
            /\ view' = show_table_tab(table, selected_status, selected_months,
                                      use_issue_filter, range)
    /\ UNCHANGED <<table, nextId, form, event, args, payload>>

\* rows the list view is run on: two written through the forms, and one whose
\* status, cost and fee another client of the database left NULL
ListRows(id) ==
    {RowOf(id, build_payload(FormArgs(FillABC))),
     RowOf(id, build_payload(FormArgs(FillOther))),
     [RowOf(id, build_payload(FormArgs(FillOther)))
        EXCEPT !.status = None, !.issue_date = 20240220, !.month_number = 3,
               !.service_cost = None, !.fee = None, !.total_cost = NumZero]}

ListTables ==
    UNION {[D -> UNION {ListRows(i) : i \in D}] : D \in SUBSET (1..MaxListId)}

---------------------------------------------------------------------------
(* Direct calls of build_payload *)

\* amounts: missing, 0.00, 50.00, 100.005, 0.125, 0.375, 999.995, -5.00,
\* -100.005, -0.001
MoneyInputs ==
    {None,
     Some(Float(FALSE, 0, 0, 0)),
     Some(Float(FALSE, 0, 50000, 0)),
     Some(Float(FALSE, 0, 100005, -1)),
     Some(Float(FALSE, 0, 125, 0)),
     Some(Float(FALSE, 0, 375, 0)),
     Some(Float(FALSE, 0, 999995, 1)),
     Some(Float(TRUE, 0, 5000, 0)),
     Some(Float(TRUE, 0, 100005, -1)),
     Some(Float(TRUE, 0, 1, 1))}

ControlInputs == {FillABC.control, FillOther.control, FillBlank.control}

\* the amount is zero or more (-0.0 >= 0 in Python)
CentsGeq0(c) == ~c.neg \/ (c.kilo = 0 /\ c.cents = 0)

PayloadArgs ==
    {[FormArgs(FillABC) EXCEPT !.control = c, !.service_cost = x, !.fee = y] :
        c \in ControlInputs, x \in MoneyInputs, y \in MoneyInputs}

CallBuildPayload ==
    /\ args # None
    /\ payload = None
    /\ payload' = Some(build_payload(args[1]))
    /\ UNCHANGED <<table, nextId, form, event, view, args>>

---------------------------------------------------------------------------
(* Specifications *)

NoView == [kind |-> "none"]

\* main(), lines 513-531: the table exists and is empty, the sequence at 1
Init ==
    /\ table = EmptyTable
    /\ nextId = 1
    /\ form = [s \in Sessions |-> Idle]
    /\ event = Event("none", "ok", FALSE, {}, 0)
    /\ view = NoView
    /\ args = None
    /\ payload = None

Next ==
    \E s \in Sessions :
        \/ \E f \in Fillings : CreateSubmit(s, f, MaxId)
        \/ UpdateRender(s)
        \/ \E f \in Fillings : UpdateSubmit(s, f)
        \/ DeleteRender(s)
        \/ DeleteSubmit(s)

Spec == Init /\ [][Next]_vars

\* sessions that only register and delete records
NextDelete ==
    \E s \in Sessions :
        \/ \E f \in DeleteFillings : CreateSubmit(s, f, MaxDeleteId)
        \/ DeleteRender(s)
        \/ DeleteSubmit(s)

SpecDelete == Init /\ [][NextDelete]_vars

\* the list view run on a loaded table
InitList ==
    /\ table \in {t \in ListTables : \A i \in DOMAIN t : t[i].id = i}
    /\ nextId = MaxListId + 1
    /\ form = [s \in Sessions |-> Idle]
    /\ event = Event("none", "ok", FALSE, {}, 0)
    /\ view = NoView
    /\ args = None
    /\ payload = None

NextList == ShowTable

SpecList == InitList /\ [][NextList]_vars

\* build_payload called on any arguments
InitPayload ==
    /\ table = EmptyTable
    /\ nextId = 1
    /\ form = [s \in Sessions |-> Idle]
    /\ event = Event("none", "ok", FALSE, {}, 0)
    /\ view = NoView
    /\ args \in {Some(a) : a \in PayloadArgs}
    /\ payload = None

NextPayload == CallBuildPayload

SpecPayload == InitPayload /\ [][NextPayload]_vars

---------------------------------------------------------------------------
(* Properties *)

IdsOf(rows) == {rows[k].id : k \in DOMAIN rows}

RemoveAt(seq, k) == SubSeq(seq, 1, k - 1) \o SubSeq(seq, k + 1, Len(seq))

\* every character of the text is whitespace (the empty text included)
Blank(text) == \A k \in DOMAIN text : text[k] \in {" ", "\t", "\n"}

\* after is before plus exactly one record, new, whose total is cost + fee
OneNewRecord(before, after) ==
    \E k \in DOMAIN after :
        /\ RemoveAt(after, k) = before
        /\ after[k].id \notin IdsOf(before)
        /\ after[k].total_cost =
               NumAdd(Coalesce0(after[k].service_cost), Coalesce0(after[k].fee))

\* C1 as stated: every create submission whose control code is non-empty after
\* trimming makes List return the previous records plus exactly one new record,
\* whose total_cost is its stored service_cost plus its stored fee.
C1_InsertThenList ==
    [][\A s \in Sessions, f \in Fillings :
          CreateSubmit(s, f, MaxId) /\ ~Blank(f.control)
          => OneNewRecord(fetch_dataframe(table), fetch_dataframe(table'))]_vars

\* C1 amended: the same for every such submission whose INSERT the database
\* accepts (text within the VARCHAR widths, amounts and their sum within
\* NUMERIC(12,2)); a submission the database rejects leaves List as it was.
C1_InsertThenListAccepted ==
    [][\A s \in Sessions, f \in Fillings :
          CreateSubmit(s, f, MaxId) /\ ~Blank(f.control)
          => IF InsertRejects(build_payload(FormArgs(f)))
             THEN fetch_dataframe(table') = fetch_dataframe(table)
             ELSE OneNewRecord(fetch_dataframe(table), fetch_dataframe(table'))]_vars

\* a record has just been added to a table that already held one
C1_Witness ==
    /\ event.op = "create" /\ event.outcome = "ok"
    /\ Len(fetch_dataframe(table)) >= 2
    /\ (nextId - 1) \in DOMAIN table
    /\ table[nextId - 1].total_cost = [kilo |-> 0, cents |-> 15000]

\* C2: a delete submission with identifier set S removes exactly the stored
\* records whose identifier is in S, leaves every other record as it was, raises
\* no error for identifiers of S that are not stored, and List afterwards holds
\* no identifier of S.
C2_DeleteExactly ==
    [][\A s \in Sessions :
          DeleteSubmit(s)
          => /\ DOMAIN table' = DOMAIN table \ form[s].ids
             /\ \A i \in DOMAIN table' : table'[i] = table[i]
             /\ event'.outcome = "ok"
             /\ IdsOf(fetch_dataframe(table')) \cap form[s].ids = {}]_vars

\* a delete named a stored and a missing identifier, and a record remains
C2_Witness ==
    /\ event.op = "delete" /\ event.outcome = "ok"
    /\ event.rows >= 1 /\ event.rows < Cardinality(event.ids)
    /\ DOMAIN table # {}

\* C3: after an update submission, applying the same update (same identifier,
\* same payload) once more leaves the table as the first application left it and
\* ends the same way.
C3_UpdateIdempotent ==
    [][\A s \in Sessions, f \in Fillings :
          UpdateSubmit(s, f)
          => LET id == CHOOSE i \in form[s].ids : TRUE
                 p == build_payload(FormArgs(f))
             IN  /\ update_record(table', id, p) = table'
                 /\ UpdateRejects(table', id, p) = UpdateRejects(table, id, p)]_vars

\* an update has rewritten a stored record
C3_Witness ==
    /\ event.op = "update" /\ event.outcome = "ok" /\ event.rows = 1
    /\ \E i \in event.ids : i \in DOMAIN table /\ table[i].control = <<"X", "1">>

\* C4: a create submission whose control code is empty or only whitespace shows
\* the validation error, sends no statement, and leaves List and the sequence as
\* they were.
C4_BlankControlRejected ==
    [][\A s \in Sessions, f \in Fillings :
          CreateSubmit(s, f, MaxId) /\ Blank(f.control)
          => /\ event' = Event("create", "invalid", FALSE, {}, 0)
             /\ fetch_dataframe(table') = fetch_dataframe(table)
             /\ nextId' = nextId]_vars

\* a blank control code was refused while records were stored
C4_Witness ==
    /\ event.op = "create" /\ event.outcome = "invalid" /\ ~event.call
    /\ DOMAIN table # {}

\* C5: with no other filter set, a status set shows exactly the loaded records
\* whose status is in the set (a record without status is left out), and the
\* empty set shows every loaded record; with other filters set, every record
\* shown still has its status in the set.
C5_StatusFilter ==
    view.kind \in {"dataframe", "warning"}
    => /\ view.selected_status # {}
          => \A k \in DOMAIN view.rows :
                /\ view.rows[k].status # None
                /\ view.rows[k].status[1] \in view.selected_status
       /\ view.selected_months = {} /\ ~view.use_issue_filter
          => IdsOf(view.rows) =
                IF view.selected_status = {}
                THEN DOMAIN table
                ELSE {i \in DOMAIN table :
                        \E st \in view.selected_status : table[i].status = Some(st)}

\* a status set kept one record and left out one without status
C5_Witness ==
    /\ view.kind = "dataframe"
    /\ view.selected_status # {} /\ view.selected_months = {} /\ ~view.use_issue_filter
    /\ \E i \in DOMAIN table : table[i].status = None
    /\ Len(view.rows) = 1

\* C6 as stated: whenever the issue-date filter is enabled and the range input
\* has delivered a value, the view shows exactly the loaded records with
\* start <= issue_date <= end, the start-only selection included (for which the
\* view must at least show a result).
C6_IssueRangeFilter ==
    view.kind # "none" /\ view.kind # "info"
    /\ view.use_issue_filter /\ view.range # <<>>
    => /\ view.kind \in {"dataframe", "warning"}
       /\ Len(view.range) = 2 /\ view.selected_status = {} /\ view.selected_months = {}
          => IdsOf(view.rows) =
                {i \in DOMAIN table : /\ table[i].issue_date >= view.range[1]
                                      /\ table[i].issue_date <= view.range[2]}

\* C7 as stated: the create submission control="ABC123", service_cost=100.005,
\* fee=50.00 stores service_cost 100.01 and total_cost 150.01.
C7_HalfUp ==
    [][\A s \in Sessions :
          CreateSubmit(s, FillABC, MaxId)
          => /\ nextId \in DOMAIN table'
             /\ table'[nextId].service_cost = Some([kilo |-> 0, cents |-> 10001])
             /\ table'[nextId].total_cost = [kilo |-> 0, cents |-> 15001]]_vars

\* C7 amended: that submission stores service_cost 100.00 and total_cost 150.00
\* (round() rounds the binary double nearest to 100.005, which lies below it).
C7_RoundsBinaryDouble ==
    [][\A s \in Sessions :
          CreateSubmit(s, FillABC, MaxId)
          => /\ nextId \in DOMAIN table'
             /\ table'[nextId].control = <<"A", "B", "C", "1", "2", "3">>
             /\ table'[nextId].service_cost = Some([kilo |-> 0, cents |-> 10000])
             /\ table'[nextId].fee = Some([kilo |-> 0, cents |-> 5000])
             /\ table'[nextId].total_cost = [kilo |-> 0, cents |-> 15000]]_vars

\* the ABC123 record has just been stored
C7_Witness ==
    /\ event.op = "create" /\ event.outcome = "ok"
    /\ (nextId - 1) \in DOMAIN table
    /\ table[nextId - 1].control = <<"A", "B", "C", "1", "2", "3">>
    /\ table[nextId - 1].service_cost = Some([kilo |-> 0, cents |-> 10000])

\* C8 as stated: an update submission whose identifier is no longer stored
\* changes no record, creates none, and completes without an error.
C8_MissingIdNoOp ==
    [][\A s \in Sessions, f \in Fillings :
          UpdateSubmit(s, f) /\ form[s].ids \cap DOMAIN table = {}
          => /\ table' = table
             /\ event'.outcome = "ok"]_vars

\* C8 amended: such a submission changes no record and creates none; it completes
\* without an error exactly when the payload's own values fit their columns, and
\* then reports success as for a stored identifier.
C8_MissingIdNoOpUnlessRejected ==
    [][\A s \in Sessions, f \in Fillings :
          UpdateSubmit(s, f) /\ form[s].ids \cap DOMAIN table = {}
          => /\ table' = table
             /\ form[s].ids \cap DOMAIN table' = {}
             /\ fetch_dataframe(table') = fetch_dataframe(table)
             /\ event'.outcome =
                   IF ColumnRejects(build_payload(FormArgs(f))) THEN "error" ELSE "ok"
             /\ event'.outcome = "ok" => event'.call]_vars

\* an update of an identifier another session had deleted reported success
C8_Witness ==
    /\ event.op = "update" /\ event.outcome = "ok" /\ event.rows = 0
    /\ event.ids \cap DOMAIN table = {}
    /\ DOMAIN table # {}

\* C9: every stored record has a control code that is non-empty after trimming.
C9_ControlRequired ==
    \A i \in DOMAIN table : ~Blank(table[i].control)

InputGeq0(x) == x = None \/ ~x[1].neg

\* the input is negative and at least one cent in size
InputBelowZero(x) == x # None /\ x[1].neg /\ (x[1].kilo >= 1 \/ x[1].milli >= 10)

\* C10 as stated: for every service_cost and fee given to build_payload the
\* payload's service_cost and fee are >= 0.
C10_NeverNegative ==
    payload # None
    => CentsGeq0(payload[1].service_cost) /\ CentsGeq0(payload[1].fee)

\* C10 amended: build_payload returns an amount >= 0 for a missing, zero or
\* positive input and keeps the sign of a negative one (an input of -0.01 or
\* below gives a negative amount); the arguments the forms' number inputs can
\* deliver (min_value 0.0) give a record whose cost, fee and total are >= 0.
C10_SignKept ==
    payload # None
    => LET a == args[1]
           p == payload[1]
       IN  /\ InputGeq0(a.service_cost) => CentsGeq0(p.service_cost)
           /\ InputGeq0(a.fee) => CentsGeq0(p.fee)
           /\ InputBelowZero(a.service_cost) => ~CentsGeq0(p.service_cost)
           /\ InputBelowZero(a.fee) => ~CentsGeq0(p.fee)
           /\ InputGeq0(a.service_cost) /\ InputGeq0(a.fee)
              => /\ NumGeq0(Coalesce0(RowOf(1, p).service_cost))
                 /\ NumGeq0(Coalesce0(RowOf(1, p).fee))
                 /\ NumGeq0(RowOf(1, p).total_cost)

\* build_payload was given service_cost=-5.00 and returned -5.00
C10_Witness ==
    /\ payload # None
    /\ args[1].service_cost = Some(Float(TRUE, 0, 5000, 0))
    /\ payload[1].service_cost = [neg |-> TRUE, kilo |-> 0, cents |-> 500]

\* through the forms no stored record has a negative cost, fee or total
StoredNonNegative ==
    \A i \in DOMAIN table :
        /\ NumGeq0(Coalesce0(table[i].service_cost))
        /\ NumGeq0(Coalesce0(table[i].fee))
        /\ NumGeq0(table[i].total_cost)

====
